---- MODULE Spec2Model ----
(***************************************************************************)
(* Model of ezdeploy (src/main.go): the HTTP handler deployHandler and the *)
(* containerised build executeBuild, run by concurrent requests against    *)
(* one working directory and one container backend.                        *)
(*                                                                         *)
(* Every request is a process whose position is pc[i]; each blocking call  *)
(* of the code is one step.  Calls that leave the program (git, the file   *)
(* system, the Docker client) succeed or fail nondeterministically.  The   *)
(* two channels returned by ContainerWait are filled by the backend: the   *)
(* status channel with an exit code, the error channel with an error or    *)
(* with nil (the case line 173 tests for); the select of line 171 takes    *)
(* any channel that is ready.                                              *)
(***************************************************************************)
EXTENDS Naturals, Sequences, FiniteSets, TLC

VARIABLES
    pc,          \* position of each request in deployHandler / executeBuild
    body,        \* r.Body as received; its repoURL is req.RepoURL once decoded
    projectDir,  \* the directory createProjectDir returned
    buildTool,   \* what detectBuildTool returned
    resp,        \* HTTP status sent for the request, 0 while unanswered
    result,      \* what executeBuild returned
    unit,        \* containerResp.ID
    statusCh,    \* the status channel of ContainerWait
    errCh,       \* the error channel of ContainerWait
    recv,        \* what the select received
    copyResp,    \* the stream returned by CopyFromContainer
    build,       \* the image build the request asked the backend for
    log,         \* the calls the request made, in order
    dirs,        \* directories that exist under the working directory
    files,       \* files of the project directories: <<dir, name>>
    cwdFile,     \* files of the working directory itself: name -> content
    outFiles,    \* files inside the directory build-output
    image,       \* what the tag java-build-env names: [manifest, kind]
    units        \* containers of the backend, by ID: [cmd, image, state]

vars == <<pc, body, projectDir, buildTool, resp, result, unit, statusCh, errCh,
          recv, copyResp, build, log, dirs, files, cwdFile, outFiles, image,
          units>>

(***************************************************************************)
(* Bounds.                                                                 *)
(***************************************************************************)
MaxTime == 1
MaxExitCode == 1

\* two requests in flight: the least that shows the handler running
\* concurrently with itself
Requests == {1, 2}
ExitCodes == 0..MaxExitCode

(***************************************************************************)
(* Values.                                                                 *)
(***************************************************************************)
Nil == "<nil>"
NotReturned == "<running>"
Empty == "<empty>"
NoUnit == 0

GitHubPrefix == "https://github.com/"
DockerfileName == "Dockerfile"
ImageTag == "java-build-env"
ArtifactPath == "/app/target"
OutputDir == "build-output"

URLs == {"https://github.com/u/app", "https://github.com/u/", ""}
Bodies == {[json |-> FALSE, repoURL |-> ""]} \cup
          {[json |-> TRUE, repoURL |-> u] : u \in URLs}
Markers == {"pom.xml", "build.gradle"}
Trees == {{}, {"pom.xml"}, {"pom.xml", DockerfileName}, {"build.gradle", DockerfileName}}
RepoManifest == "FROM scratch"
Artifacts == {"app.jar"}

(***************************************************************************)
(* Strings.                                                                *)
(***************************************************************************)
Max(S) == CHOOSE m \in S : \A n \in S : n <= m

HasPrefix(s, p) == Len(s) >= Len(p) /\ SubSeq(s, 1, Len(p)) = p

TrimPrefix(s, p) == IF HasPrefix(s, p) THEN SubSeq(s, Len(p) + 1, Len(s)) ELSE s

Contains(s, sub) ==
    \E k \in 1..(Len(s) + 1) :
        /\ k + Len(sub) - 1 <= Len(s)
        /\ SubSeq(s, k, k + Len(sub) - 1) = sub

\* parts[len(parts)-1] of strings.Split(s, "/")
LastPart(s) ==
    LET slashes == {k \in 1..Len(s) : SubSeq(s, k, k) = "/"}
    IN  IF slashes = {} THEN s ELSE SubSeq(s, Max(slashes) + 1, Len(s))

getRepoNameFromURL(repoURL) == LastPart(TrimPrefix(repoURL, GitHubPrefix))

ProjectDirName(repoName, timestamp) == repoName \o "-" \o ToString(timestamp)

Errorf(msg, err) == msg \o ": " \o err

(***************************************************************************)
(* detectBuildTool, buildToolArgs, the command, the manifest.              *)
(***************************************************************************)
detectBuildTool(found) ==
    IF "pom.xml" \in found THEN "maven"
    ELSE IF "build.gradle" \in found THEN "gradle"
    ELSE "unknown"

buildToolArgs(tool) == IF tool = "maven" THEN "clean package" ELSE "build"

BuildCommand(tool) == tool \o " " \o buildToolArgs(tool)

ContainerCmd(tool) == <<"/bin/sh", "-c", BuildCommand(tool)>>

BaseLines == "\n\tFROM openjdk:17-jdk-slim\n\tRUN apt-get update && apt-get install -y curl git"
MavenLine == "\nRUN apt-get install -y maven"
GradleLine == "\nRUN apt-get install -y gradle"
WorkdirLines == "\n\tWORKDIR /app\n\tCOPY . ."

\* the two branches of lines 214-218 are swapped
ToolchainLineSwapped(tool) ==
    IF tool = "maven" THEN GradleLine
    ELSE IF tool = "gradle" THEN MavenLine
    ELSE ""

ToolchainLine(tool) ==
    IF tool = "maven" THEN MavenLine
    ELSE IF tool = "gradle" THEN GradleLine
    ELSE ""

dockerfileContent(tool) == BaseLines \o ToolchainLine(tool) \o WorkdirLines

\* the file is opened for appending instead of being truncated
WriteFileAppend(old, data) == old \o data

\* os.WriteFile: the file is created or truncated, then holds the data.
WriteFile(old, data) == data

(***************************************************************************)
(* Initial state: no request has arrived, the working directory is empty,  *)
(* the backend holds no image and no container.                            *)
(***************************************************************************)
NoBody == [json |-> FALSE, repoURL |-> "<none>"]
NoRecv == [ch |-> "none", code |-> 0, err |-> Nil]
NoBuild == [state |-> "none", manifest |-> Empty]

\* the tag names no image
NoImage == [manifest |-> Empty, kind |-> Empty]

Init ==
    /\ pc = [i \in Requests |-> "decode"]
    /\ body = [i \in Requests |-> NoBody]
    /\ projectDir = [i \in Requests |-> ""]
    /\ buildTool = [i \in Requests |-> ""]
    /\ resp = [i \in Requests |-> 0]
    /\ result = [i \in Requests |-> NotReturned]
    /\ unit = [i \in Requests |-> NoUnit]
    /\ statusCh = [i \in Requests |-> <<>>]
    /\ errCh = [i \in Requests |-> <<>>]
    /\ recv = [i \in Requests |-> NoRecv]
    /\ copyResp = [i \in Requests |-> {}]
    /\ build = [i \in Requests |-> NoBuild]
    /\ log = [i \in Requests |-> <<>>]
    /\ dirs = {}
    /\ files = {}
    /\ cwdFile = [n \in {} |-> ""]
    /\ outFiles = {}
    /\ image = NoImage
    /\ units = <<>>

(***************************************************************************)
(* Returning.                                                              *)
(***************************************************************************)
StatusBadRequest == 400
StatusOK == 200

\* deferred buildResp.Body.Close(): a build still running is abandoned
CloseBody(b) == IF b.state = "running" THEN [b EXCEPT !.state = "cancelled"] ELSE b

\* http.Error(w, ..., http.StatusBadRequest); return
Reject(i) ==
    /\ pc' = [pc EXCEPT ![i] = "done"]
    /\ resp' = [resp EXCEPT ![i] = StatusBadRequest]
    /\ UNCHANGED <<result, build>>

\* a bare return of deployHandler: nothing was written to w, so the server
\* answers 200
ReturnSilently(i) ==
    /\ pc' = [pc EXCEPT ![i] = "done"]
    /\ resp' = [resp EXCEPT ![i] = StatusOK]
    /\ UNCHANGED <<result, build>>

\* executeBuild returns err; deployHandler prints and returns whatever err is
ReturnFromBuild(i, err) ==
    /\ pc' = [pc EXCEPT ![i] = "done"]
    /\ result' = [result EXCEPT ![i] = err]
    /\ resp' = [resp EXCEPT ![i] = StatusOK]
    /\ build' = [build EXCEPT ![i] = CloseBody(@)]

Goto(i, label) ==
    /\ pc' = [pc EXCEPT ![i] = label]
    /\ UNCHANGED <<result, resp>>

Call(i, name, ok, val) ==
    log' = [log EXCEPT ![i] = Append(@, [call |-> name, ok |-> ok, val |-> val])]

(***************************************************************************)
(* deployHandler.                                                          *)
(***************************************************************************)
\* the decode error is ignored
DecodeFailsNever(b) == FALSE

DecodeFails(b) == ~b.json

\* the check of line 98 is missing
IsUnsupportedNever(tool) == FALSE

IsUnsupported(tool) == tool = "unknown"

\* lines 62-80: decode the body, extract the repository name
Decode(i) ==
    /\ pc[i] = "decode"
    /\ \E b \in Bodies :
        /\ body' = [body EXCEPT ![i] = b]
        /\ IF DecodeFails(b)
           THEN Reject(i)
           ELSE IF getRepoNameFromURL(b.repoURL) = ""
                THEN ReturnSilently(i)
                ELSE Goto(i, "mkdir") /\ UNCHANGED build
    /\ UNCHANGED <<projectDir, buildTool, unit, statusCh, errCh, recv, copyResp,
                   log, dirs, files, cwdFile, outFiles, image, units>>

\* the directory is reported as made and is not there
MkdirAllNothing(ds, d) == ds

\* os.MkdirAll: the directory exists afterwards
MkdirAll(ds, d) == ds \cup {d}

\* lines 81-87 and createProjectDir
CreateProjectDir(i) ==
    /\ pc[i] = "mkdir"
    /\ \E timestamp \in 0..MaxTime, ok \in BOOLEAN :
        LET dir == ProjectDirName(getRepoNameFromURL(body[i].repoURL), timestamp)
        IN  /\ Call(i, "os.MkdirAll(projectDir)", ok, dir)
            /\ IF ok
               THEN /\ dirs' = MkdirAll(dirs, dir)
                    /\ projectDir' = [projectDir EXCEPT ![i] = dir]
                    /\ Goto(i, "fetch") /\ UNCHANGED build
               ELSE /\ ReturnSilently(i)
                    /\ UNCHANGED <<dirs, projectDir>>
    /\ UNCHANGED <<body, buildTool, unit, statusCh, errCh, recv, copyResp,
                   files, cwdFile, outFiles, image, units>>

\* lines 89-94 and fetchCodeFromGitHub: git clones only into an empty directory
Fetch(i) ==
    /\ pc[i] = "fetch"
    /\ \/ /\ Call(i, "git clone", FALSE, projectDir[i])
          /\ ReturnSilently(i)
          /\ UNCHANGED files
       \/ /\ ~\E f \in files : f[1] = projectDir[i]
          /\ \E tree \in Trees :
                files' = files \cup {<<projectDir[i], f>> : f \in tree \cup {".git"}}
          /\ Call(i, "git clone", TRUE, projectDir[i])
          /\ Goto(i, "detect") /\ UNCHANGED build
    /\ UNCHANGED <<body, projectDir, buildTool, unit, statusCh, errCh, recv,
                   copyResp, dirs, cwdFile, outFiles, image, units>>

\* lines 96-102 and detectBuildTool: a marker is found when os.Stat finds it
Detect(i) ==
    /\ pc[i] = "detect"
    /\ LET found == {f \in Markers : <<projectDir[i], f>> \in files}
           tool == detectBuildTool(found)
       IN  /\ buildTool' = [buildTool EXCEPT ![i] = tool]
           /\ IF IsUnsupported(tool)
              THEN Reject(i)
              ELSE Goto(i, "client") /\ UNCHANGED build
    /\ UNCHANGED <<body, projectDir, unit, statusCh, errCh, recv, copyResp, log,
                   dirs, files, cwdFile, outFiles, image, units>>

(***************************************************************************)
(* executeBuild.                                                           *)
(***************************************************************************)
EnvErr == "backend error"

FileContent(name) == IF name \in DOMAIN cwdFile THEN cwdFile[name] ELSE ""

SetFile(name, content) ==
    [n \in DOMAIN cwdFile \cup {name} |-> IF n = name THEN content ELSE cwdFile[n]]

\* lines 116-120: client.NewClientWithOpts
NewClient(i) ==
    /\ pc[i] = "client"
    /\ \/ /\ Call(i, "client.NewClientWithOpts", FALSE, "")
          /\ ReturnFromBuild(i, Errorf("failed to initialize Docker client", EnvErr))
       \/ /\ Call(i, "client.NewClientWithOpts", TRUE, "")
          /\ Goto(i, "generate") /\ UNCHANGED build
    /\ UNCHANGED <<body, projectDir, buildTool, unit, statusCh, errCh, recv,
                   copyResp, dirs, files, cwdFile, outFiles, image, units>>

\* lines 121-125 and generateDockerfile: the manifest goes to the file
\* Dockerfile of the working directory; a failed write leaves the file as it
\* was or truncated
GenerateDockerfile(i) ==
    /\ pc[i] = "generate"
    /\ \/ /\ cwdFile' = SetFile(DockerfileName,
                 WriteFile(FileContent(DockerfileName), dockerfileContent(buildTool[i])))
          /\ Call(i, "os.WriteFile", TRUE, cwdFile'[DockerfileName])
          /\ Goto(i, "open") /\ UNCHANGED build
       \/ /\ \/ UNCHANGED cwdFile
             \/ cwdFile' = SetFile(DockerfileName, "")
          /\ Call(i, "os.WriteFile", FALSE, "")
          /\ ReturnFromBuild(i, Errorf("failed to write Dockerfile", EnvErr))
    /\ UNCHANGED <<body, projectDir, buildTool, unit, statusCh, errCh, recv,
                   copyResp, dirs, files, outFiles, image, units>>

\* lines 126-131: os.Open(projectPath)
OpenContext(i) ==
    /\ pc[i] = "open"
    /\ \/ /\ Call(i, "os.Open", FALSE, projectDir[i])
          /\ ReturnFromBuild(i, Errorf("failed to open project directory", EnvErr))
       \/ /\ Call(i, "os.Open", TRUE, projectDir[i])
          /\ Goto(i, "build") /\ UNCHANGED build
    /\ UNCHANGED <<body, projectDir, buildTool, unit, statusCh, errCh, recv,
                   copyResp, dirs, files, cwdFile, outFiles, image, units>>

\* the file the backend resolves for ImageBuildOptions.Dockerfile: a path
\* inside the build context
ContextHasManifest(dir) == <<dir, DockerfileName>> \in files

\* lines 132-140: cli.ImageBuild returns once the backend has accepted the
\* request; the build itself goes on while the response body is streamed,
\* and the code never reads the body
ImageBuild(i) ==
    /\ pc[i] = "build"
    /\ \/ /\ Call(i, "ImageBuild", FALSE, ImageTag)
          /\ ReturnFromBuild(i, Errorf("failed to build Docker image", EnvErr))
       \/ /\ ContextHasManifest(projectDir[i])
          /\ Call(i, "ImageBuild", TRUE, ImageTag)
          /\ build' = [build EXCEPT ![i] = [state |-> "running", manifest |-> RepoManifest]]
          /\ Goto(i, "create")
    /\ UNCHANGED <<body, projectDir, buildTool, unit, statusCh, errCh, recv,
                   copyResp, dirs, files, cwdFile, outFiles, image, units>>

\* the backend ends a running build: the tag is moved to the image built from
\* the manifest of the context, for the kind of the request that asked for it,
\* or the build fails
\* and the failure is reported in the response body
BuildFinish(i) ==
    /\ build[i].state = "running"
    /\ \/ /\ build' = [build EXCEPT ![i].state = "built"]
          /\ image' = [manifest |-> build[i].manifest, kind |-> buildTool[i]]
       \/ /\ build' = [build EXCEPT ![i].state = "failed"]
          /\ UNCHANGED image
    /\ UNCHANGED <<pc, body, projectDir, buildTool, resp, result, unit, statusCh,
                   errCh, recv, copyResp, log, dirs, files, cwdFile, outFiles,
                   units>>

\* the backend hands out the ID of an existing container again
NewIDReused(us) == 1

\* the ID the backend assigns to a new container: one no container has
NewID(us) == Len(us) + 1

\* lines 142-161: cli.ContainerCreate; the backend refuses a tag that does not
\* resolve
ContainerCreate(i) ==
    /\ pc[i] = "create"
    /\ \/ /\ Call(i, "ContainerCreate", FALSE, BuildCommand(buildTool[i]))
          /\ ReturnFromBuild(i, Errorf("failed to create container", EnvErr))
          /\ UNCHANGED <<unit, units>>
       \/ /\ image # NoImage
          /\ units' = Append(units, [cmd |-> ContainerCmd(buildTool[i]),
                                     image |-> image, state |-> "created"])
          /\ unit' = [unit EXCEPT ![i] = NewID(units)]
          /\ Call(i, "ContainerCreate", TRUE, BuildCommand(buildTool[i]))
          /\ Goto(i, "start") /\ UNCHANGED build
    /\ UNCHANGED <<body, projectDir, buildTool, statusCh, errCh, recv, copyResp,
                   dirs, files, cwdFile, outFiles, image>>

\* lines 163-167: cli.ContainerStart
ContainerStart(i) ==
    /\ pc[i] = "start"
    /\ \/ /\ Call(i, "ContainerStart", FALSE, "")
          /\ ReturnFromBuild(i, Errorf("failed to start container", EnvErr))
          /\ UNCHANGED units
       \/ /\ units' = [units EXCEPT ![unit[i]].state = "running"]
          /\ Call(i, "ContainerStart", TRUE, "")
          /\ Goto(i, "wait") /\ UNCHANGED build
    /\ UNCHANGED <<body, projectDir, buildTool, unit, statusCh, errCh, recv,
                   copyResp, dirs, files, cwdFile, outFiles, image>>

\* line 170: cli.ContainerWait hands back the two channels
ContainerWait(i) ==
    /\ pc[i] = "wait"
    /\ Call(i, "ContainerWait", TRUE, "")
    /\ Goto(i, "select")
    /\ UNCHANGED <<body, projectDir, buildTool, unit, statusCh, errCh, recv,
                   copyResp, build, dirs, files, cwdFile, outFiles, image, units>>

WaitErr == "wait failed"

\* the backend reports the exit of the container on the status channel
DeliverStatus(i) ==
    /\ pc[i] = "select"
    /\ statusCh[i] = <<>>
    /\ units[unit[i]].state = "running"
    /\ \E code \in ExitCodes :
        /\ statusCh' = [statusCh EXCEPT ![i] = <<code>>]
        /\ units' = [units EXCEPT ![unit[i]].state = "exited"]
    /\ UNCHANGED <<pc, body, projectDir, buildTool, resp, result, unit, errCh,
                   recv, copyResp, build, log, dirs, files, cwdFile, outFiles,
                   image>>

\* the error channel receives a value: an error, or nil
DeliverErr(i) ==
    /\ pc[i] = "select"
    /\ errCh[i] = <<>>
    /\ \E err \in {Nil, WaitErr} : errCh' = [errCh EXCEPT ![i] = <<err>>]
    /\ UNCHANGED <<pc, body, projectDir, buildTool, resp, result, unit, statusCh,
                   recv, copyResp, build, log, dirs, files, cwdFile, outFiles,
                   image, units>>

\* a channel that holds a value is never seen as ready
ReadyNever(ch) == FALSE

\* lines 171-176: a case of the select can be taken when its channel holds a
\* value
Ready(ch) == ch # <<>>

\* the error received from the wait is dropped
WaitFailedNever(err) == FALSE

WaitFailed(err) == err # Nil

\* lines 172-175: case err := <-errCh
SelectErr(i) ==
    /\ pc[i] = "select"
    /\ Ready(errCh[i])
    /\ LET err == errCh[i][1]
       IN  /\ recv' = [recv EXCEPT ![i] = [ch |-> "err", code |-> 0, err |-> err]]
           /\ errCh' = [errCh EXCEPT ![i] = <<>>]
           /\ Call(i, "<-errCh", TRUE, err)
           /\ IF WaitFailed(err)
              THEN ReturnFromBuild(i, Errorf("error while waiting for container", err))
              ELSE Goto(i, "copy") /\ UNCHANGED build
    /\ UNCHANGED <<body, projectDir, buildTool, unit, statusCh, copyResp, dirs,
                   files, cwdFile, outFiles, image, units>>

\* the status code is not looked at
ExitFailsNever(code) == FALSE

\* every status code is taken for a failure
ExitFailsAlways(code) == TRUE

ExitFails(code) == code # 0

\* lines 176-179: case status := <-statusCh
SelectStatus(i) ==
    /\ pc[i] = "select"
    /\ Ready(statusCh[i])
    /\ LET code == statusCh[i][1]
       IN  /\ recv' = [recv EXCEPT ![i] = [ch |-> "status", code |-> code, err |-> Nil]]
           /\ statusCh' = [statusCh EXCEPT ![i] = <<>>]
           /\ Call(i, "<-statusCh", TRUE, ToString(code))
           /\ IF ExitFails(code)
              THEN ReturnFromBuild(i, Errorf("container exited with non-zero status",
                                             ToString(code)))
              ELSE Goto(i, "copy") /\ UNCHANGED build
    /\ UNCHANGED <<body, projectDir, buildTool, unit, errCh, copyResp, dirs,
                   files, cwdFile, outFiles, image, units>>

\* lines 182-187: cli.CopyFromContainer returns a stream of the files under
\* /app/target
CopyFromContainer(i) ==
    /\ pc[i] = "copy"
    /\ \/ /\ Call(i, "CopyFromContainer", FALSE, ArtifactPath)
          /\ ReturnFromBuild(i, Errorf("failed to copy build artifacts", EnvErr))
          /\ UNCHANGED copyResp
       \/ /\ copyResp' = [copyResp EXCEPT ![i] = Artifacts]
          /\ Call(i, "CopyFromContainer", TRUE, ArtifactPath)
          /\ Goto(i, "mkout") /\ UNCHANGED build
    /\ UNCHANGED <<body, projectDir, buildTool, unit, statusCh, errCh, recv, dirs,
                   files, cwdFile, outFiles, image, units>>

\* what lines 189-197 put into build-output: the stream is closed unread
Extract(present, stream) == present

\* lines 189-198: os.MkdirAll("build-output"), then return nil
MakeOutputDir(i) ==
    /\ pc[i] = "mkout"
    /\ \/ /\ Call(i, "os.MkdirAll(build-output)", FALSE, OutputDir)
          /\ ReturnFromBuild(i, Errorf("failed to create build output directory", EnvErr))
          /\ UNCHANGED <<dirs, outFiles>>
       \/ /\ dirs' = MkdirAll(dirs, OutputDir)
          /\ outFiles' = Extract(outFiles, copyResp[i])
          /\ Call(i, "os.MkdirAll(build-output)", TRUE, OutputDir)
          /\ ReturnFromBuild(i, Nil)
    /\ UNCHANGED <<body, projectDir, buildTool, unit, statusCh, errCh, recv,
                   copyResp, files, cwdFile, image, units>>

Next ==
    \E i \in Requests :
        \/ Decode(i)
        \/ CreateProjectDir(i)
        \/ Fetch(i)
        \/ Detect(i)
        \/ NewClient(i)
        \/ GenerateDockerfile(i)
        \/ OpenContext(i)
        \/ ImageBuild(i)
        \/ BuildFinish(i)
        \/ ContainerCreate(i)
        \/ ContainerStart(i)
        \/ ContainerWait(i)
        \/ DeliverStatus(i)
        \/ DeliverErr(i)
        \/ SelectErr(i)
        \/ SelectStatus(i)
        \/ CopyFromContainer(i)
        \/ MakeOutputDir(i)

Spec == Init /\ [][Next]_vars

\* lines 62-199: what the goroutine of request i executes, one call at a time
Handler(i) ==
    \/ Decode(i) \/ CreateProjectDir(i) \/ Fetch(i) \/ Detect(i)
    \/ NewClient(i) \/ GenerateDockerfile(i) \/ OpenContext(i)
    \/ ImageBuild(i) \/ ContainerCreate(i) \/ ContainerStart(i)
    \/ ContainerWait(i) \/ SelectErr(i) \/ SelectStatus(i)
    \/ CopyFromContainer(i) \/ MakeOutputDir(i)

\* line 170: what the wait of the backend puts on the two channels
Signal(i) == DeliverStatus(i) \/ DeliverErr(i)

\* the goroutine of each request is scheduled and its calls return; the wait
\* signals on one of its channels
Fairness ==
    \A i \in Requests : WF_vars(Handler(i)) /\ WF_vars(Signal(i))

FairSpec == Spec /\ Fairness

(***************************************************************************)
(* Reading the state.                                                      *)
(***************************************************************************)
\* the positions of the calls of one name in the log of a request
Calls(i, name) == {k \in DOMAIN log[i] : log[i][k].call = name}

Failed(i, name) == \E k \in Calls(i, name) : ~log[i][k].ok

Succeeded(i, name) == \E k \in Calls(i, name) : log[i][k].ok

BackendCalls == {"ImageBuild", "ContainerCreate", "ContainerStart",
                 "ContainerWait", "CopyFromContainer"}

BuildCalls == BackendCalls \cup {"client.NewClientWithOpts", "os.WriteFile", "os.Open",
                                 "<-errCh", "<-statusCh", "os.MkdirAll(build-output)"}

Done(i) == pc[i] = "done"

\* the wait has put the exit code on its status channel
Reported(i, code) ==
    \/ statusCh[i] = <<code>>
    \/ recv[i].ch = "status" /\ recv[i].code = code

\* the select took the exit code from the status channel
Received(i, code) == recv[i].ch = "status" /\ recv[i].code = code

NonZeroExit(code) == "container exited with non-zero status: " \o ToString(code)

(***************************************************************************)
(* C1: a request whose detected build tool is unknown is answered with 400 *)
(* before any build step: in that request the manifest is not written, no  *)
(* backend call is made and executeBuild is never entered.                 *)
(***************************************************************************)
C1_UnknownRejectedBeforeBuild ==
    \A i \in Requests :
        buildTool[i] = "unknown" =>
            /\ Done(i)
            /\ resp[i] = StatusBadRequest
            /\ result[i] = NotReturned
            /\ \A k \in DOMAIN log[i] : log[i][k].call \notin BuildCalls
            /\ unit[i] = NoUnit
            /\ build[i] = NoBuild

\* a project with neither marker file was fetched and rejected
C1_Witness ==
    \E i \in Requests :
        /\ buildTool[i] = "unknown"
        /\ Succeeded(i, "git clone")
        /\ resp[i] = StatusBadRequest

(***************************************************************************)
(* C2, as claimed: whenever the wait reports an exit code other than 0,    *)
(* executeBuild returns the failure carrying that code and never calls     *)
(* CopyFromContainer, whichever channel the select takes.                  *)
(***************************************************************************)
C2_Original ==
    \A i \in Requests : \A code \in ExitCodes \ {0} :
        (Reported(i, code) /\ Done(i)) =>
            /\ result[i] = NonZeroExit(code)
            /\ Calls(i, "CopyFromContainer") = {}

(***************************************************************************)
(* C2, amended: whenever the select receives an exit code other than 0     *)
(* from the status channel, executeBuild returns at once with the failure  *)
(* carrying that code and CopyFromContainer is never called by that        *)
(* request.                                                                *)
(***************************************************************************)
C2_NonZeroReceivedFails ==
    \A i \in Requests : \A code \in ExitCodes \ {0} :
        Received(i, code) =>
            /\ Done(i)
            /\ result[i] = NonZeroExit(code)
            /\ Calls(i, "CopyFromContainer") = {}

C2_Witness ==
    \E i \in Requests : \E code \in ExitCodes \ {0} :
        /\ Received(i, code)
        /\ Done(i)
        /\ units[unit[i]].state = "exited"

(***************************************************************************)
(* C3, as claimed: whenever the wait reports exit code 0 the build result  *)
(* is success and CopyFromContainer is called exactly once.                *)
(***************************************************************************)
C3_Original ==
    \A i \in Requests :
        (Received(i, 0) /\ Done(i)) =>
            /\ result[i] = Nil
            /\ Cardinality(Calls(i, "CopyFromContainer")) = 1

(***************************************************************************)
(* C3, amended: whenever the select receives exit code 0 from the status   *)
(* channel, CopyFromContainer is called exactly once, after the status was *)
(* received, and the build result is success exactly when that copy and    *)
(* the creation of the output directory both succeed.                      *)
(***************************************************************************)
C3_ZeroReceivedCopiesOnce ==
    \A i \in Requests :
        Received(i, 0) =>
            /\ Cardinality(Calls(i, "CopyFromContainer")) <= 1
            /\ \A k \in Calls(i, "CopyFromContainer") :
                   \E w \in Calls(i, "<-statusCh") : w < k
            /\ pc[i] # "copy" => Cardinality(Calls(i, "CopyFromContainer")) = 1
            /\ Done(i) =>
                   (result[i] = Nil <=>
                        /\ Succeeded(i, "CopyFromContainer")
                        /\ Succeeded(i, "os.MkdirAll(build-output)"))

C3_Witness ==
    \E i \in Requests :
        /\ Received(i, 0)
        /\ Done(i)
        /\ result[i] = Nil
        /\ Cardinality(Calls(i, "CopyFromContainer")) = 1

(***************************************************************************)
(* C4, as claimed: whenever provisioning fails (the client cannot be set   *)
(* up, the manifest cannot be written, the build context cannot be opened, *)
(* the image build is refused or the image build fails), the request       *)
(* creates and starts no container, copies no artifact and ends with that  *)
(* failure.                                                                *)
(***************************************************************************)
ProvisioningErrors ==
    {Errorf("failed to initialize Docker client", EnvErr),
     Errorf("failed to write Dockerfile", EnvErr),
     Errorf("failed to open project directory", EnvErr),
     Errorf("failed to build Docker image", EnvErr)}

ProvisioningFailed(i) ==
    \/ Failed(i, "client.NewClientWithOpts")
    \/ Failed(i, "os.WriteFile")
    \/ Failed(i, "os.Open")
    \/ Failed(i, "ImageBuild")
    \/ build[i].state = "failed"

C4_Original ==
    \A i \in Requests :
        ProvisioningFailed(i) =>
            /\ unit[i] = NoUnit
            /\ ~Succeeded(i, "ContainerStart")
            /\ Calls(i, "CopyFromContainer") = {}
            /\ Done(i) => result[i] \in ProvisioningErrors

(***************************************************************************)
(* C5, as claimed: the shell command given to the container is "mvn clean  *)
(* package" for Maven and "gradle build" for Gradle, and nothing else.     *)
(***************************************************************************)
SpecifiedCommand(tool) ==
    IF tool = "maven" THEN "mvn clean package" ELSE "gradle build"

C5_Original ==
    \A i \in Requests :
        /\ \A k \in Calls(i, "ContainerCreate") :
               log[i][k].val = SpecifiedCommand(buildTool[i])
        /\ unit[i] # NoUnit =>
               units[unit[i]].cmd = <<"/bin/sh", "-c", SpecifiedCommand(buildTool[i])>>

(***************************************************************************)
(* C6, as claimed: whenever a build returns success, the artifacts of the  *)
(* container are in the host output directory.                             *)
(***************************************************************************)
C6_Original ==
    \A i \in Requests :
        result[i] = Nil =>
            /\ OutputDir \in dirs
            /\ copyResp[i] # {}
            /\ copyResp[i] \subseteq outFiles

(***************************************************************************)
(* C7, as claimed: a request in which a step failed (the fetch, or any     *)
(* step of executeBuild) is answered with an HTTP error status, never with *)
(* 200.                                                                    *)
(***************************************************************************)
StepFailed(i) ==
    \/ Failed(i, "git clone")
    \/ result[i] \notin {NotReturned, Nil}

C7_Original ==
    \A i \in Requests :
        (Done(i) /\ StepFailed(i)) => resp[i] >= StatusBadRequest

(***************************************************************************)
(* C8: a request with a malformed body is answered with 400 and creates no *)
(* directory, fetches nothing and builds nothing; a request whose project  *)
(* has no supported build tool is answered with 400.                       *)
(***************************************************************************)
Malformed(i) == body[i] # NoBody /\ ~body[i].json

C8_BadInputAnswered400 ==
    \A i \in Requests :
        /\ Malformed(i) =>
               /\ Done(i)
               /\ resp[i] = StatusBadRequest
               /\ log[i] = <<>>
               /\ projectDir[i] = ""
               /\ result[i] = NotReturned
        /\ (Done(i) /\ buildTool[i] = "unknown") => resp[i] = StatusBadRequest

C8_Witness ==
    \E i, j \in Requests :
        /\ Malformed(i) /\ resp[i] = StatusBadRequest
        /\ buildTool[j] = "unknown" /\ resp[j] = StatusBadRequest

(***************************************************************************)
(* C9: the manifest generateDockerfile writes for Maven or Gradle installs *)
(* the toolchain of that kind and not the other one, and always has the    *)
(* base runtime, the working directory and the copy of the whole context.  *)
(***************************************************************************)
Install(tool) == "apt-get install -y " \o tool

OtherTool(tool) == IF tool = "maven" THEN "gradle" ELSE "maven"

\* the manifest the request left when generateDockerfile returned nil
JustWritten(i) == pc[i] = "open"

C9_ManifestMatchesKind ==
    \A i \in Requests :
        JustWritten(i) =>
            LET manifest == log[i][Len(log[i])].val
            IN  /\ buildTool[i] \in {"maven", "gradle"}
                /\ Contains(manifest, Install(buildTool[i]))
                /\ ~Contains(manifest, Install(OtherTool(buildTool[i])))
                /\ Contains(manifest, "FROM openjdk:17-jdk-slim")
                /\ Contains(manifest, "WORKDIR /app")
                /\ Contains(manifest, "COPY . .")

C9_Witness ==
    \E i, j \in Requests :
        /\ JustWritten(i) /\ buildTool[i] = "gradle"
        /\ Succeeded(j, "os.WriteFile") /\ buildTool[j] = "maven"
        /\ Contains(cwdFile[DockerfileName], Install("gradle"))

(***************************************************************************)
(* C10: two runs of generateDockerfile with the same kind leave the same   *)
(* bytes, and each run leaves what a single run in an empty directory      *)
(* leaves, whatever the file held before.                                  *)
(***************************************************************************)
\* what the successful run of generateDockerfile of a request left
Left(i) == {log[i][k].val : k \in {n \in Calls(i, "os.WriteFile") : log[i][n].ok}}

C10_GenerateIdempotent ==
    \A i, j \in Requests :
        /\ buildTool[i] = buildTool[j] => \A a \in Left(i), b \in Left(j) : a = b
        /\ \A a \in Left(i) : a = WriteFile("", dockerfileContent(buildTool[i]))

\* the second run found the manifest of the first run in place
C10_Witness ==
    \E i, j \in Requests :
        /\ i # j
        /\ buildTool[i] = buildTool[j]
        /\ Left(i) # {} /\ Left(j) # {}
        /\ Left(i) = Left(j)


(***************************************************************************)
(* C11, as claimed: CopyFromContainer is never called before a status was  *)
(* received from the status channel of the wait, also when the error       *)
(* channel yields nil first.                                               *)
(***************************************************************************)
C11_Original ==
    \A i \in Requests :
        \A k \in Calls(i, "CopyFromContainer") :
            \E w \in Calls(i, "<-statusCh") : w < k

(***************************************************************************)
(* C12, as claimed: ContainerCreate is called only after the image build   *)
(* the request asked for has run to completion and tagged the image.       *)
(***************************************************************************)
C12_Original ==
    \A i \in Requests :
        Calls(i, "ContainerCreate") # {} => build[i].state = "built"

(***************************************************************************)
(* C13, as claimed: while an error is available on the error channel the   *)
(* request neither reports success nor goes on to CopyFromContainer, also  *)
(* when the status channel is ready at the same time.                      *)
(***************************************************************************)
C13_Original ==
    \A i \in Requests :
        errCh[i] = <<WaitErr>> =>
            /\ pc[i] \notin {"copy", "mkout"}
            /\ Calls(i, "CopyFromContainer") = {}
            /\ result[i] # Nil

(***************************************************************************)
(* C14, as claimed: at most one request at a time is between its write of  *)
(* the manifest and the end of its image build.                            *)
(***************************************************************************)
InProvisioning(i) ==
    /\ Succeeded(i, "os.WriteFile")
    /\ \/ pc[i] \in {"open", "build"}
       \/ build[i].state = "running"

C14_Original ==
    \A i, j \in Requests :
        (InProvisioning(i) /\ InProvisioning(j)) => i = j


BuildEnded(i) == result[i] # NotReturned

Count(i, name) == Cardinality(Calls(i, name))

C16_Original ==
    \A i \in Requests :
        /\ BuildEnded(i) =>
               /\ Cardinality({k \in Calls(i, "ContainerCreate") : log[i][k].ok}) = 1
               /\ unit[i] # NoUnit
        /\ Count(i, "ContainerStart") <= 1
        /\ Count(i, "ContainerWait") <= 1
        /\ Count(i, "CopyFromContainer") <= 1
        /\ \A j \in Requests : (unit[i] # NoUnit /\ unit[i] = unit[j]) => i = j

(***************************************************************************)
(* C16, amended: every build invocation creates at most one container, and *)
(* exactly one once ContainerCreate has succeeded; it produces exactly one *)
(* result, when it ends; the container is started at most once, awaited at *)
(* most once, used for at most one extraction, each only after the step    *)
(* before it, and no container is used by two invocations.                 *)
(***************************************************************************)
C16_OneUnitOneResult ==
    \A i \in Requests :
        /\ Count(i, "ContainerCreate") <= 1
        /\ unit[i] # NoUnit <=> Succeeded(i, "ContainerCreate")
        /\ unit[i] # NoUnit => unit[i] \in DOMAIN units
        /\ Count(i, "ContainerStart") <= 1
        /\ Count(i, "ContainerWait") <= 1
        /\ Count(i, "CopyFromContainer") <= 1
        /\ Calls(i, "ContainerStart") # {} => Succeeded(i, "ContainerCreate")
        /\ Calls(i, "ContainerWait") # {} => Succeeded(i, "ContainerStart")
        /\ Calls(i, "CopyFromContainer") # {} => Calls(i, "ContainerWait") # {}
        /\ BuildEnded(i) <=> (Done(i) /\ Calls(i, "client.NewClientWithOpts") # {})
        /\ \A j \in Requests : (unit[i] # NoUnit /\ unit[i] = unit[j]) => i = j

\* both requests ran a container of their own to the end
C16_Witness ==
    \E i, j \in Requests :
        /\ i # j
        /\ BuildEnded(i) /\ BuildEnded(j)
        /\ unit[i] # NoUnit /\ unit[j] # NoUnit
        /\ Count(i, "CopyFromContainer") = 1
        /\ Count(j, "CopyFromContainer") = 1


(***************************************************************************)
(* C17: a failure of ContainerCreate, of ContainerStart or an error taken  *)
(* from the error channel of the wait ends the invocation with that        *)
(* failure: it is the last thing the request does, and no start, wait,     *)
(* copy or creation of the output directory follows it.                    *)
(***************************************************************************)
LastCall(i) == log[i][Len(log[i])]

\* the request ended at the call `name`, with the failure `msg`
EndedAt(i, name, msg) ==
    /\ Done(i)
    /\ result[i] = Errorf(msg, LastCall(i).val)
    /\ LastCall(i).call = name
    /\ Calls(i, "CopyFromContainer") = {}
    /\ Calls(i, "os.MkdirAll(build-output)") = {}

C17_RunnerFailureEndsBuild ==
    \A i \in Requests :
        /\ Failed(i, "ContainerCreate") =>
               /\ Done(i)
               /\ result[i] = Errorf("failed to create container", EnvErr)
               /\ LastCall(i).call = "ContainerCreate"
               /\ unit[i] = NoUnit
        /\ Failed(i, "ContainerStart") =>
               /\ Done(i)
               /\ result[i] = Errorf("failed to start container", EnvErr)
               /\ LastCall(i).call = "ContainerStart"
               /\ units[unit[i]].state = "created"
        /\ (recv[i].ch = "err" /\ recv[i].err # Nil) =>
               EndedAt(i, "<-errCh", "error while waiting for container")

C17_Witness ==
    \E i, j \in Requests :
        /\ recv[i].ch = "err" /\ recv[i].err = WaitErr /\ Done(i)
        /\ Failed(j, "ContainerStart") /\ Done(j)


(***************************************************************************)
(* C18: when the goroutines are scheduled, the calls return and the wait   *)
(* signals, every build that was started ends with a result: success, a    *)
(* non-zero exit or a failure of the infrastructure.                       *)
(***************************************************************************)
BuildStarted(i) ==
    pc[i] \in {"client", "generate", "open", "build", "create", "start",
               "wait", "select", "copy", "mkout"}

C18_BuildTerminates ==
    \A i \in Requests : BuildStarted(i) ~> (Done(i) /\ BuildEnded(i))

\* a build went through the wait and ended, one in success and one not
C18_Witness ==
    \E i, j \in Requests :
        /\ Done(i) /\ Calls(i, "ContainerWait") # {} /\ result[i] = Nil
        /\ Done(j) /\ Calls(j, "ContainerWait") # {} /\ result[j] \notin {Nil, NotReturned}


(***************************************************************************)
(* C19, as claimed: the image a request creates its container from was     *)
(* built for the kind of that request, whatever the other request does.    *)
(***************************************************************************)
C19_Original ==
    \A i \in Requests :
        unit[i] # NoUnit => units[unit[i]].image.kind = buildTool[i]

(***************************************************************************)
(* C20, as claimed: the manifest the image build of a request reads is the *)
(* manifest generateDockerfile wrote for that request.                     *)
(***************************************************************************)
C20_Original ==
    \A i \in Requests :
        build[i].state # "none" =>
            build[i].manifest = dockerfileContent(buildTool[i])

====
